---- MODULE Spec2Model ----
(***************************************************************************)
(* Domain/IP reconciliation engine of the DNS Domain Resolver (App.vue and *)
(* its per-entity-storage variant).  Strings are sequences of chunks: a    *)
(* chunk is a piece of text that the operations never look inside          *)
(* ("a.com", "web1", "1.2.3.4") or a separator (" ", ",").                 *)
(***************************************************************************)
EXTENDS Integers, Sequences, FiniteSets, TLC

\* ------------------------------------------------------------------ bounds
MaxServers == 2
MaxManual == 1
MaxTimers == 2
MaxClicks == 3
MaxClock == 2

\* ----------------------------------------------------------------- strings
Range(s) == {s[i] : i \in 1..Len(s)}

\* the value null of serverName (no string of the inputs holds this chunk)
Null == <<"NULL">>

\* String.prototype.trim: leading and trailing white space removed
RECURSIVE TrimLeft(_)
TrimLeft(s) == IF s # <<>> /\ Head(s) = " " THEN TrimLeft(Tail(s)) ELSE s

RECURSIVE TrimRight(_)
TrimRight(s) ==
  IF s # <<>> /\ s[Len(s)] = " " THEN TrimRight(SubSeq(s, 1, Len(s) - 1)) ELSE s

Trim(s) == TrimRight(TrimLeft(s))

\* String.prototype.split(','): the pieces between the commas, in order
RECURSIVE SplitFrom(_, _)
SplitFrom(s, cur) ==
  IF s = <<>> THEN <<cur>>
  ELSE IF Head(s) = "," THEN <<cur>> \o SplitFrom(Tail(s), <<>>)
  ELSE SplitFrom(Tail(s), Append(cur, Head(s)))

Split(s) == SplitFrom(s, <<>>)

\* the collation rank of a chunk of the page's strings: white space, then
\* punctuation, then digits, then letters
Rank(c) ==
  CASE c = " " -> 0
    [] c = "," -> 1
    [] c = "1.2.3.4" -> 2
    [] c = "5.6.7.8" -> 3
    [] c = "a.com" -> 4
    [] c = "alias.net" -> 5
    [] c = "b.com" -> 6
    [] c = "c.com" -> 7
    [] c = "unmatched" -> 8
    [] c = "web1" -> 9
    [] c = "web2" -> 10

\* a.localeCompare(b): negative, zero or positive
RECURSIVE localeCompare(_, _)
localeCompare(a, b) ==
  IF a = <<>> /\ b = <<>> THEN 0
  ELSE IF a = <<>> THEN -1
  ELSE IF b = <<>> THEN 1
  ELSE IF Rank(Head(a)) < Rank(Head(b)) THEN -1
  ELSE IF Rank(Head(a)) > Rank(Head(b)) THEN 1
  ELSE localeCompare(Tail(a), Tail(b))

\* Array.prototype.sort with the comparator localeCompare on the keys of the
\* elements: the stable order of the positions 1..Len(keys)
RECURSIVE InsertSorted(_, _, _)
InsertSorted(i, perm, keys) ==
  IF perm = <<>> THEN <<i>>
  ELSE IF localeCompare(keys[i], keys[Head(perm)]) < 0 THEN <<i>> \o perm
  ELSE <<Head(perm)>> \o InsertSorted(i, Tail(perm), keys)

RECURSIVE SortPerm(_, _)
SortPerm(n, keys) ==
  IF n = 0 THEN <<>> ELSE InsertSorted(n, SortPerm(n - 1, keys), keys)

\* unresolvedDomains.value.sort((a, b) => a.localeCompare(b))
sortUnresolved(s) ==
  LET perm == SortPerm(Len(s), s) IN [i \in 1..Len(s) |-> s[perm[i]]]

\* the resolved list left as it is
sortResolvedNot(s) == s

\* resolvedDomains.value.sort((a, b) => a.domain.localeCompare(b.domain))
sortResolved(s) ==
  LET keys == [i \in 1..Len(s) |-> s[i].domain]
      perm == SortPerm(Len(s), keys)
  IN [i \in 1..Len(s) |-> s[perm[i]]]

\* Array.prototype.splice(index, 1): a negative index counts from the end
Splice(s, index) ==
  LET start == IF index < 0 THEN (IF Len(s) + index < 0 THEN 0 ELSE Len(s) + index)
               ELSE index
  IN IF start >= Len(s) THEN s
     ELSE SubSeq(s, 1, start) \o SubSeq(s, start + 2, Len(s))

\* ------------------------------------------------------- resolver adapter
\* the entries of an Answer array: A records (type 1) and a CNAME (type 5)
A1 == [type |-> 1, data |-> <<"1.2.3.4">>]
A2 == [type |-> 1, data |-> <<"5.6.7.8">>]
Alias == [type |-> 5, data |-> <<"alias.net">>]

\* the Answer arrays of the lookups: none, aliases alone, one or two
\* addresses in both orders, an address twice, addresses among aliases
Answers ==
  { <<>>, <<Alias>>, <<A1>>, <<A2>>, <<A1, A2>>, <<A2, A1>>, <<A1, A1>>,
    <<Alias, A1>>, <<A2, Alias>> }

\* what the external lookup can do: fail on the network, answer with a
\* non-success status, answer with a body that is no JSON, answer without an
\* Answer field, or answer with an Answer array
Responses ==
  [kind : {"neterr", "status", "badjson", "noanswer"}, answer : {<<>>}]
    \cup [kind : {"ok"}, answer : Answers]

NullIps == [isNull |-> TRUE, ips |-> <<>>]

IsARecord(record) == record.type = 1

\* resolveDomain that takes the data of every entry of the Answer
resolveDomainAnyType(resp) ==
  IF resp.kind \in {"neterr", "status", "badjson"} THEN NullIps
  ELSE IF resp.kind = "ok" /\ Len(resp.answer) > 0
  THEN [isNull |-> FALSE,
        ips |-> [i \in 1..Len(resp.answer) |-> resp.answer[i].data]]
  ELSE NullIps

resolveDomain(resp) ==
  IF resp.kind \in {"neterr", "status", "badjson"} THEN NullIps
  ELSE IF resp.kind = "ok" /\ Len(resp.answer) > 0
  THEN LET aRecords == SelectSeq(resp.answer, IsARecord)
       IN IF Len(aRecords) > 0
          THEN [isNull |-> FALSE,
                ips |-> [i \in 1..Len(aRecords) |-> aRecords[i].data]]
          ELSE NullIps
  ELSE NullIps

\* everything resolveDomain can return
Resolutions == {resolveDomain(resp) : resp \in Responses}

\* ips && ips.length > 0
Succeeded(ips) == ~ips.isNull /\ Len(ips.ips) > 0

\* ---------------------------------------------------------------- matcher
\* the matcher taking the last known server with the ip
matchedServerNameLast(servers, ip) ==
  LET hits == {i \in 1..Len(servers) : servers[i].ip = ip}
  IN IF hits = {} THEN Null
     ELSE servers[CHOOSE i \in hits : \A j \in hits : i >= j].name

\* knownServers.value.find(server => server.ip === ip), then its name or null
matchedServerName(servers, ip) ==
  LET hits == {i \in 1..Len(servers) : servers[i].ip = ip}
  IN IF hits = {} THEN Null
     ELSE servers[CHOOSE i \in hits : \A j \in hits : i <= j].name

\* the wall clock in ticks (the milliseconds of Date.now()); a second has
\* TicksPerSecond of them
TicksPerSecond == 2

\* new Date().toLocaleString(): the date and the time of day to the second
toLocaleString(t) == t \div TicksPerSecond

\* the readings of the clock that a handler can make one after the other, `n`
\* of them, when the last reading before was `from`: the clock does not go
\* back
Readings(from, n) ==
  {times \in [1..n -> from..MaxClock] :
     \A i \in 1..(n - 1) : times[i] <= times[i + 1]}

\* the clock after the readings
LastReading(from, times) == IF Len(times) = 0 THEN from ELSE times[Len(times)]

\* the records pushed for one successful resolution, one per returned ip; each
\* push reads the clock twice: new Date() for resolvedAt, then Date.now()
newRecords(domain, ips, servers, times) ==
  [i \in 1..Len(ips) |->
     [domain |-> domain,
      ip |-> ips[i],
      serverName |-> matchedServerName(servers, ips[i]),
      resolvedAt |-> toLocaleString(times[2 * i - 1]),
      timestamp |-> times[2 * i]]]

HasDomain(resolved, domain) ==
  \E i \in 1..Len(resolved) : resolved[i].domain = domain

Includes(s, x) == \E i \in 1..Len(s) : s[i] = x

\* ------------------------------------------------------------- addDomain
\* input.split(',').map(d => d.trim()).filter(d => d !== '')
NonEmpty(d) == d # <<>>

Tokens(input) ==
  LET parts == Split(input)
  IN SelectSeq([i \in 1..Len(parts) |-> Trim(parts[i])], NonEmpty)

\* the loop over the tokens: the unresolved list, the domains added and the
\* warnings collected so far
\* addLoop looking for the domain in the list as it was before the call only
RECURSIVE addLoopStale(_, _, _)
addLoopStale(domains, acc, resolved) ==
  IF domains = <<>> THEN acc
  ELSE LET domain == Head(domains)
           before == SubSeq(acc.unresolved, 1, Len(acc.unresolved) - Len(acc.added))
       IN
    IF Includes(before, domain)
    THEN addLoopStale(Tail(domains),
                 [acc EXCEPT !.warnings =
                    Append(@, [domain |-> domain, reason |-> "unresolved"])],
                 resolved)
    ELSE IF HasDomain(resolved, domain)
    THEN addLoopStale(Tail(domains),
                 [acc EXCEPT !.warnings =
                    Append(@, [domain |-> domain, reason |-> "resolved"])],
                 resolved)
    ELSE addLoopStale(Tail(domains),
                 [acc EXCEPT !.unresolved = Append(@, domain),
                             !.added = Append(@, domain)],
                 resolved)

\* addLoop without the look into the resolved list
RECURSIVE addLoopUnresolvedOnly(_, _, _)
addLoopUnresolvedOnly(domains, acc, resolved) ==
  IF domains = <<>> THEN acc
  ELSE LET domain == Head(domains) IN
    IF Includes(acc.unresolved, domain)
    THEN addLoopUnresolvedOnly(Tail(domains),
                 [acc EXCEPT !.warnings =
                    Append(@, [domain |-> domain, reason |-> "unresolved"])],
                 resolved)
    ELSE addLoopUnresolvedOnly(Tail(domains),
                 [acc EXCEPT !.unresolved = Append(@, domain),
                             !.added = Append(@, domain)],
                 resolved)

RECURSIVE addLoop(_, _, _)
addLoop(domains, acc, resolved) ==
  IF domains = <<>> THEN acc
  ELSE LET domain == Head(domains) IN
    IF Includes(acc.unresolved, domain)
    THEN addLoop(Tail(domains),
                 [acc EXCEPT !.warnings =
                    Append(@, [domain |-> domain, reason |-> "unresolved"])],
                 resolved)
    ELSE IF HasDomain(resolved, domain)
    THEN addLoop(Tail(domains),
                 [acc EXCEPT !.warnings =
                    Append(@, [domain |-> domain, reason |-> "resolved"])],
                 resolved)
    ELSE addLoop(Tail(domains),
                 [acc EXCEPT !.unresolved = Append(@, domain),
                             !.added = Append(@, domain)],
                 resolved)

\* ------------------------------------------------------------ persistence
\* localStorage: a function from the keys that are present to their values
removeItem(st, key) == [k \in DOMAIN st \ {key} |-> st[k]]

setItem(st, key, value) ==
  [k \in DOMAIN st \cup {key} |-> IF k = key THEN value ELSE st[k]]

EmptyStorage == [k \in {} |-> <<>>]

\* JSON.stringify and JSON.parse of arrays and plain objects of strings,
\* numbers and null
stringify(value) == [json |-> value]

parse(text) == text.json

StartsWith(key, prefix) ==
  Len(key) >= Len(prefix) /\ SubSeq(key, 1, Len(prefix)) = prefix

\* key.replace(prefix, '') on a key that starts with the prefix
StripPrefix(key, prefix) == SubSeq(key, Len(prefix) + 1, Len(key))

UnresolvedKey == <<"unresolvedDomains">>
ServersKey == <<"knownServers">>
ResolvedKey == <<"resolvedDomains">>

DomainPrefix == <<"domain:">>
UnresolvedPrefix == <<"domain:", "unresolved:">>
ResolvedPrefix == <<"domain:", "resolved:">>
ServerPrefix == <<"server:">>

\* the store in memory: the three collections
Store(unresolved, known, resolved) ==
  [unresolved |-> unresolved, known |-> known, resolved |-> resolved]

EmptyStore == Store(<<>>, <<>>, <<>>)

\* saveToStorage of App.vue: three keys, one array each
saveWhole(st, mem) ==
  setItem(setItem(setItem(st, UnresolvedKey, stringify(mem.unresolved)),
                  ServersKey, stringify(mem.known)),
          ResolvedKey, stringify(mem.resolved))

\* loadFromStorage of App.vue onto the refs as they are
loadWhole(st, mem) ==
  [unresolved |->
     IF UnresolvedKey \in DOMAIN st
     THEN sortUnresolved(parse(st[UnresolvedKey])) ELSE mem.unresolved,
   known |->
     IF ServersKey \in DOMAIN st THEN parse(st[ServersKey]) ELSE mem.known,
   resolved |->
     IF ResolvedKey \in DOMAIN st
     THEN sortResolved(parse(st[ResolvedKey])) ELSE mem.resolved]

\* saveToStorage of the per-entity variant
RECURSIVE saveUnresolvedKeys(_, _)
saveUnresolvedKeys(st, unresolved) ==
  IF unresolved = <<>> THEN st
  ELSE saveUnresolvedKeys(
         setItem(st, UnresolvedPrefix \o Head(unresolved), <<"true">>),
         Tail(unresolved))

\* resolvedByDomain[domain]: the records of the domain, without the domain
RecordOf(domain, entry) ==
  [domain |-> domain, ip |-> entry.ip, serverName |-> entry.serverName,
   resolvedAt |-> entry.resolvedAt, timestamp |-> entry.timestamp]

EntryOf(record) ==
  [ip |-> record.ip, serverName |-> record.serverName,
   resolvedAt |-> record.resolvedAt, timestamp |-> record.timestamp]

resolvedByDomain(resolved, domain) ==
  LET OfDomain(r) == r.domain = domain
      records == SelectSeq(resolved, OfDomain)
  IN [i \in 1..Len(records) |-> EntryOf(records[i])]

RECURSIVE saveResolvedKeys(_, _, _)
saveResolvedKeys(st, resolved, i) ==
  IF i > Len(resolved) THEN st
  ELSE saveResolvedKeys(
         setItem(st, ResolvedPrefix \o resolved[i].domain,
                 stringify(resolvedByDomain(resolved, resolved[i].domain))),
         resolved, i + 1)

RECURSIVE saveServerKeys(_, _)
saveServerKeys(st, servers) ==
  IF servers = <<>> THEN st
  ELSE saveServerKeys(
         setItem(st, ServerPrefix \o Head(servers).name,
                 stringify([ip |-> Head(servers).ip])),
         Tail(servers))

\* saveToStorage of the per-entity variant that clears nothing first
saveEntityOnTop(st, mem) ==
  saveServerKeys(
    saveResolvedKeys(saveUnresolvedKeys(st, mem.unresolved), mem.resolved, 1),
    mem.known)

saveEntity(st, mem) ==
  LET kept == {k \in DOMAIN st :
                 /\ k \notin {UnresolvedKey, ServersKey, ResolvedKey}
                 /\ ~StartsWith(k, DomainPrefix)
                 /\ ~StartsWith(k, ServerPrefix)}
      cleared == [k \in kept |-> st[k]]
  IN saveServerKeys(
       saveResolvedKeys(saveUnresolvedKeys(cleared, mem.unresolved),
                        mem.resolved, 1),
       mem.known)

\* loadFromStorage of the per-entity variant, the keys enumerated in `order`
RECURSIVE loadKeys(_, _, _)
loadKeys(st, order, mem) ==
  IF order = <<>> THEN mem
  ELSE LET key == Head(order)
           m1 == IF StartsWith(key, UnresolvedPrefix)
                 THEN [mem EXCEPT !.unresolved =
                         Append(@, StripPrefix(key, UnresolvedPrefix))]
                 ELSE mem
           m2 == IF StartsWith(key, ResolvedPrefix)
                 THEN LET domain == StripPrefix(key, ResolvedPrefix)
                          records == parse(st[key])
                      IN [m1 EXCEPT !.resolved =
                            @ \o [i \in 1..Len(records) |->
                                    RecordOf(domain, records[i])]]
                 ELSE m1
           m3 == IF StartsWith(key, ServerPrefix) /\ parse(st[key]).ip # <<>>
                 THEN [m2 EXCEPT !.known =
                         Append(@, [name |-> StripPrefix(key, ServerPrefix),
                                    ip |-> parse(st[key]).ip])]
                 ELSE m2
       IN loadKeys(st, Tail(order), m3)

loadEntity(st, order) ==
  LET mem == loadKeys(st, order, EmptyStore)
  IN [mem EXCEPT !.unresolved = sortUnresolved(@),
                 !.resolved = sortResolved(@)]

\* localStorage.key(i), i = 0, 1, ...: the order of the keys is up to the
\* browser.  The two domain lists are sorted after the scan and a domain's
\* records come from one key, so the result depends on the order of the
\* server keys alone: those are enumerated in every order, after the rest.
RECURSIVE Perms(_)
Perms(S) ==
  IF S = {} THEN {<<>>}
  ELSE UNION {{<<x>> \o q : q \in Perms(S \ {x})} : x \in S}

RECURSIVE SetToSeq(_)
SetToSeq(S) ==
  IF S = {} THEN <<>>
  ELSE LET x == CHOOSE y \in S : TRUE IN <<x>> \o SetToSeq(S \ {x})

KeyOrders(st) ==
  LET serverKeys == {k \in DOMAIN st : StartsWith(k, ServerPrefix)}
      rest == SetToSeq(DOMAIN st \ serverKeys)
  IN {rest \o q : q \in Perms(serverKeys)}

\* the two builds of the program: "whole" is App.vue (three whole-collection
\* keys), "entity" the variant with one key per entity
Variants == {"whole", "entity"}

Save(v, st, mem) == IF v = "whole" THEN saveWhole(st, mem) ELSE saveEntity(st, mem)

\* the stores that loadFromStorage can produce on fresh refs
Loads(v, st) ==
  IF v = "whole" THEN {loadWhole(st, EmptyStore)}
  ELSE {loadEntity(st, order) : order \in KeyOrders(st)}

\* ------------------------------------------------------------------ state
VARIABLES
  variant,                \* which build runs: "whole" or "entity"
  unresolvedDomains,      \* ref([]) of domain strings
  knownServers,           \* ref([]) of {name, ip}
  resolvedDomains,        \* ref([]) of {domain, ip, serverName, resolvedAt, timestamp}
  isResolving,            \* single-flight flag of resolveAllDomains
  isRetryingAll,          \* single-flight flag of retryAllResolvedDomains
  recentlyRetriedDomains, \* ref(new Set())
  localStorage,           \* the browser's key-value store
  resolveAllRun,          \* resolveAllDomains: the domains left in its loop,
                          \* the first one awaiting its response
  retryAllRun,            \* retryAllResolvedDomains: where it is and the
                          \* domains left, the first one being retried
  manualRetries,          \* retryResolveDomain calls of the Retry buttons
                          \* that await their response, per domain
  flashTimers,            \* the pending 3 s timers, oldest first
  emitted,                \* the notifications of the latest handler run
  clock,                  \* the wall clock at its last reading
  clicks                  \* how many user actions the page has seen

vars ==
  <<variant, unresolvedDomains, knownServers, resolvedDomains, isResolving,
    isRetryingAll, recentlyRetriedDomains, localStorage, resolveAllRun,
    retryAllRun, manualRetries, flashTimers, emitted, clock, clicks>>

\* ----------------------------------------------------------------- inputs
\* what the user types into the add-domain field
DomainInputs ==
  { <<>>,
    <<" ", ",", " ">>,
    <<"a.com">>,
    <<" ", "b.com", " ">>,
    <<"b.com", ",", " ", "a.com">>,
    <<"a.com", ",", " ", "b.com", ",", " ", "a.com">> }

DomainNames == UNION {Range(Tokens(Trim(input))) : input \in DomainInputs}

\* what the user types into the two known-server fields
NameInputs == { <<" ">>, <<"web1">>, <<" ", "web2">> }

IpInputs == { <<>>, <<"1.2.3.4">>, <<"5.6.7.8", " ">> }

\* --------------------------------------------------------- handler bodies
Mem == Store(unresolvedDomains, knownServers, resolvedDomains)

\* the three refs after a handler, flushed by saveToStorage or not
Commit(mem, save) ==
  /\ unresolvedDomains' = mem.unresolved
  /\ knownServers' = mem.known
  /\ resolvedDomains' = mem.resolved
  /\ localStorage' = IF save THEN Save(variant, localStorage, mem) ELSE localStorage

Notice(kind, text) == [type |-> "warning", kind |-> kind, text |-> text]

\* addDomain(): the store, whether it is saved, and the notifications
addDomain(input, mem) ==
  LET domains == Tokens(Trim(input))
      done == addLoop(domains,
                      [unresolved |-> mem.unresolved, added |-> <<>>,
                       warnings |-> <<>>],
                      mem.resolved)
  IN IF Trim(input) = <<>> \/ domains = <<>>
     THEN [mem |-> mem, save |-> FALSE, emitted |-> <<>>]
     ELSE [mem |-> IF Len(done.added) > 0
                   THEN [mem EXCEPT !.unresolved = sortUnresolved(done.unresolved)]
                   ELSE mem,
           save |-> Len(done.added) > 0,
           emitted |-> IF Len(done.warnings) > 0
                       THEN <<Notice("duplicate", done.warnings)>>
                       ELSE <<>>]

\* addKnownServer that turns down a name the table has already
addKnownServerUnique(nameInput, ipInput, mem) ==
  LET name == Trim(nameInput)
      ip == Trim(ipInput)
  IN IF name # <<>> /\ ip # <<>>
        /\ \A k \in 1..Len(mem.known) : mem.known[k].name # name
     THEN [mem |-> [mem EXCEPT !.known = Append(@, [name |-> name, ip |-> ip])],
           save |-> TRUE]
     ELSE [mem |-> mem, save |-> FALSE]

\* addKnownServer that gives the new server the unmatched records of its ip
addKnownServerRematch(nameInput, ipInput, mem) ==
  LET name == Trim(nameInput)
      ip == Trim(ipInput)
      Rematch(r) == IF r.serverName = Null /\ r.ip = ip
                    THEN [r EXCEPT !.serverName = name] ELSE r
  IN IF name # <<>> /\ ip # <<>>
     THEN [mem |-> [mem EXCEPT
                      !.known = Append(@, [name |-> name, ip |-> ip]),
                      !.resolved = [i \in 1..Len(@) |-> Rematch(@[i])]],
           save |-> TRUE]
     ELSE [mem |-> mem, save |-> FALSE]

\* addKnownServer()
addKnownServer(nameInput, ipInput, mem) ==
  LET name == Trim(nameInput)
      ip == Trim(ipInput)
  IN IF name # <<>> /\ ip # <<>>
     THEN [mem |-> [mem EXCEPT !.known = Append(@, [name |-> name, ip |-> ip])],
           save |-> TRUE]
     ELSE [mem |-> mem, save |-> FALSE]

\* removeServer(index)
removeServer(index, mem) == [mem EXCEPT !.known = Splice(@, index)]

\* removeDomain that drops the first domain of the list
removeDomainFirst(domain, mem) ==
  [mem EXCEPT !.unresolved = IF @ = <<>> THEN @ ELSE Tail(@)]

\* removeDomain(domain)
removeDomain(domain, mem) ==
  LET Other(d) == d # domain
  IN [mem EXCEPT !.unresolved = SelectSeq(@, Other)]

\* removeResolvedDomain that drops every record of the record's domain
removeResolvedDomainAll(index, mem) ==
  LET Other(r) == r.domain # mem.resolved[index + 1].domain
  IN [mem EXCEPT !.resolved = SelectSeq(@, Other)]

\* removeResolvedDomain(index)
removeResolvedDomain(index, mem) == [mem EXCEPT !.resolved = Splice(@, index)]

\* removeAllUnmatched keeping the records of the servers that are known now
removeAllUnmatchedKnown(mem) ==
  LET Matched(r) == \E k \in 1..Len(mem.known) : mem.known[k].name = r.serverName
  IN [mem EXCEPT !.resolved = SelectSeq(@, Matched)]

\* removeAllUnmatched()
removeAllUnmatched(mem) ==
  LET Matched(r) == r.serverName # Null
  IN [mem EXCEPT !.resolved = SelectSeq(@, Matched)]

\* the loop body of resolveAllDomains without its saveToStorage()
resolveOneUnsaved(domain, ips, times, mem) ==
  LET Other(d) == d # domain
  IN IF Succeeded(ips)
     THEN [mem |-> [mem EXCEPT
                      !.unresolved = SelectSeq(@, Other),
                      !.resolved = sortResolved(
                         @ \o newRecords(domain, ips.ips, mem.known, times))],
           save |-> FALSE]
     ELSE [mem |-> mem, save |-> FALSE]

\* the body of the loop of resolveAllDomains for one domain and its result
resolveOne(domain, ips, times, mem) ==
  LET Other(d) == d # domain
  IN IF Succeeded(ips)
     THEN [mem |-> [mem EXCEPT
                      !.unresolved = SelectSeq(@, Other),
                      !.resolved = sortResolved(
                         @ \o newRecords(domain, ips.ips, mem.known, times))],
           save |-> TRUE]
     ELSE [mem |-> mem, save |-> FALSE]

\* retryResolveDomain that leaves the old entries of the domain in the list
retryResolveDomainKeep(domain, ips, times, mem) ==
  LET OfDomain(r) == r.domain = domain
      Other(r) == r.domain # domain
      existingEntries == SelectSeq(mem.resolved, OfDomain)
      oldIPs == [i \in 1..Len(existingEntries) |-> existingEntries[i].ip]
      IsNew(ip) == ~Includes(oldIPs, ip)
      IsGone(ip) == ~Includes(ips.ips, ip)
      newIPs == SelectSeq(ips.ips, IsNew)
      removedIPs == SelectSeq(oldIPs, IsGone)
      fresh == newRecords(domain, ips.ips, mem.known, times)
  IN IF Succeeded(ips)
     THEN [mem |-> [mem EXCEPT
                      !.resolved = sortResolved(@ \o fresh)],
           save |-> TRUE,
           marked |-> TRUE,
           emitted |->
             IF Len(newIPs) > 0 \/ Len(removedIPs) > 0
             THEN <<Notice("ipchanged", <<domain>>)>>  \* the toast, by its domain
             ELSE <<>>]
     ELSE [mem |-> mem, save |-> FALSE, marked |-> FALSE, emitted |-> <<>>]

\* retryResolveDomain that shows its toast for new ips only
retryResolveDomainNewOnly(domain, ips, times, mem) ==
  LET OfDomain(r) == r.domain = domain
      Other(r) == r.domain # domain
      existingEntries == SelectSeq(mem.resolved, OfDomain)
      oldIPs == [i \in 1..Len(existingEntries) |-> existingEntries[i].ip]
      IsNew(ip) == ~Includes(oldIPs, ip)
      IsGone(ip) == ~Includes(ips.ips, ip)
      newIPs == SelectSeq(ips.ips, IsNew)
      removedIPs == SelectSeq(oldIPs, IsGone)
      fresh == newRecords(domain, ips.ips, mem.known, times)
  IN IF Succeeded(ips)
     THEN [mem |-> [mem EXCEPT
                      !.resolved = sortResolved(SelectSeq(@, Other) \o fresh)],
           save |-> TRUE,
           marked |-> TRUE,
           emitted |->
             IF Len(newIPs) > 0
             THEN <<Notice("ipchanged", <<domain>>)>>  \* the toast, by its domain
             ELSE <<>>]
     ELSE [mem |-> mem, save |-> FALSE, marked |-> FALSE, emitted |-> <<>>]

\* retryResolveDomain that marks the domain and tells the user when the
\* resolution has failed
retryResolveDomainLoud(domain, ips, times, mem) ==
  LET OfDomain(r) == r.domain = domain
      Other(r) == r.domain # domain
      existingEntries == SelectSeq(mem.resolved, OfDomain)
      oldIPs == [i \in 1..Len(existingEntries) |-> existingEntries[i].ip]
      IsNew(ip) == ~Includes(oldIPs, ip)
      IsGone(ip) == ~Includes(ips.ips, ip)
      newIPs == SelectSeq(ips.ips, IsNew)
      removedIPs == SelectSeq(oldIPs, IsGone)
      fresh == newRecords(domain, ips.ips, mem.known, times)
  IN IF Succeeded(ips)
     THEN [mem |-> [mem EXCEPT
                      !.resolved = sortResolved(SelectSeq(@, Other) \o fresh)],
           save |-> TRUE,
           marked |-> TRUE,
           emitted |->
             IF Len(newIPs) > 0 \/ Len(removedIPs) > 0
             THEN <<Notice("ipchanged", <<domain>>)>>  \* the toast, by its domain
             ELSE <<>>]
     ELSE [mem |-> mem, save |-> FALSE, marked |-> TRUE,
           emitted |-> <<Notice("failed", <<domain>>)>>]

\* retryResolveDomain(domain) once its resolveDomain has returned `ips`
retryResolveDomain(domain, ips, times, mem) ==
  LET OfDomain(r) == r.domain = domain
      Other(r) == r.domain # domain
      existingEntries == SelectSeq(mem.resolved, OfDomain)
      oldIPs == [i \in 1..Len(existingEntries) |-> existingEntries[i].ip]
      IsNew(ip) == ~Includes(oldIPs, ip)
      IsGone(ip) == ~Includes(ips.ips, ip)
      newIPs == SelectSeq(ips.ips, IsNew)
      removedIPs == SelectSeq(oldIPs, IsGone)
      fresh == newRecords(domain, ips.ips, mem.known, times)
  IN IF Succeeded(ips)
     THEN [mem |-> [mem EXCEPT
                      !.resolved = sortResolved(SelectSeq(@, Other) \o fresh)],
           save |-> TRUE,
           marked |-> TRUE,
           emitted |->
             IF Len(newIPs) > 0 \/ Len(removedIPs) > 0
             THEN <<Notice("ipchanged", <<domain>>)>>  \* the toast, by its domain
             ELSE <<>>]
     ELSE [mem |-> mem, save |-> FALSE, marked |-> FALSE, emitted |-> <<>>]

\* the domains of the records, one entry for each record
domainsOfRecords(resolved) ==
  [i \in 1..Len(resolved) |-> resolved[i].domain]

\* [...new Set(resolvedDomains.value.map(rd => rd.domain))]
uniqueDomains(resolved) ==
  LET domains == [i \in 1..Len(resolved) |-> resolved[i].domain]
      first == {i \in 1..Len(domains) : \A j \in 1..(i - 1) : domains[j] # domains[i]}
      FirstOnes(i) == i \in first
      idx == SelectSeq([i \in 1..Len(domains) |-> i], FirstOnes)
  IN [k \in 1..Len(idx) |-> domains[idx[k]]]

\* the computed groupedDomains: the group "unmatched" and one group per name
Unmatched == <<"unmatched">>

groupedDomains(known, resolved) ==
  LET names == {Unmatched}
                 \cup {known[i].name : i \in 1..Len(known)}
                 \cup ({resolved[i].serverName : i \in 1..Len(resolved)} \ {Null})
  IN [g \in names |->
        LET InGroup(r) == IF r.serverName # Null THEN r.serverName = g
                          ELSE g = Unmatched
        IN SelectSeq(resolved, InGroup)]

\* the records the template renders with their Retry and Remove buttons: the
\* list of groupedDomains.unmatched and one list for each known server
Rendered(known, resolved) ==
  LET groups == groupedDomains(known, resolved)
      shown == {Unmatched} \cup {known[i].name : i \in 1..Len(known)}
  IN {i \in 1..Len(resolved) : \E g \in shown : Includes(groups[g], resolved[i])}

\* ------------------------------------------------------------------- Init
NoRetries == [d \in DomainNames |-> 0]

IdleRetryAll == [pc |-> "idle", queue |-> <<>>]

\* onMounted: loadFromStorage on the fresh refs
Mounted(mem) ==
  /\ unresolvedDomains = mem.unresolved
  /\ knownServers = mem.known
  /\ resolvedDomains = mem.resolved
  /\ isResolving = FALSE
  /\ isRetryingAll = FALSE
  /\ recentlyRetriedDomains = {}
  /\ resolveAllRun = <<>>
  /\ retryAllRun = IdleRetryAll
  /\ manualRetries = NoRetries
  /\ flashTimers = <<>>
  /\ emitted = <<>>
  /\ clock = 1

\* what an earlier visit of the page can have left in localStorage: nothing,
\* or the store of a user who has one known server, one domain resolved to
\* it (at the instant 0, before this visit) and one domain not yet resolved
EarlierStore ==
  Store(<< <<"a.com">> >>,
        << [name |-> <<"web1">>, ip |-> <<"1.2.3.4">>] >>,
        << [domain |-> <<"b.com">>, ip |-> <<"1.2.3.4">>,
            serverName |-> <<"web1">>, resolvedAt |-> toLocaleString(0), timestamp |-> 0] >>)

InitialStorages(v) == {EmptyStorage, Save(v, EmptyStorage, EarlierStore)}

Init ==
  /\ variant \in Variants
  /\ localStorage \in InitialStorages(variant)
  /\ \E mem \in Loads(variant, localStorage) : Mounted(mem)
  /\ clicks = 0

\* ---------------------------------------------------------------- actions
\* one more user action, within the bound of the model
Click == clicks < MaxClicks /\ clicks' = clicks + 1

Async == <<isResolving, isRetryingAll, resolveAllRun, retryAllRun, manualRetries>>

\* a handler that does not read the clock
NoReading == UNCHANGED clock

Flash == <<recentlyRetriedDomains, flashTimers>>

\* the user submits the add-domain field
AddDomain(input) ==
  LET out == addDomain(input, Mem)
  IN /\ Commit(out.mem, out.save)
     /\ emitted' = out.emitted
     /\ Click
     /\ NoReading
     /\ UNCHANGED <<variant, Async, Flash>>

\* the user submits the known-server fields
AddKnownServer(nameInput, ipInput) ==
  LET out == addKnownServer(nameInput, ipInput, Mem)
  IN /\ Len(out.mem.known) <= MaxServers
     /\ Commit(out.mem, out.save)
     /\ emitted' = <<>>
     /\ Click
     /\ NoReading
     /\ UNCHANGED <<variant, Async, Flash>>

\* the Remove button of the known server at `index`
RemoveServer(index) ==
  /\ index \in 0..(Len(knownServers) - 1)
  /\ Commit(removeServer(index, Mem), TRUE)
  /\ emitted' = <<>>
  /\ Click
  /\ NoReading
  /\ UNCHANGED <<variant, Async, Flash>>

\* the Remove button of an unresolved domain
RemoveDomain(domain) ==
  /\ Includes(unresolvedDomains, domain)
  /\ Commit(removeDomain(domain, Mem), TRUE)
  /\ emitted' = <<>>
  /\ Click
  /\ NoReading
  /\ UNCHANGED <<variant, Async, Flash>>

\* the Remove button of the rendered record at `index`
RemoveResolvedDomain(index) ==
  /\ index + 1 \in Rendered(knownServers, resolvedDomains)
  /\ Commit(removeResolvedDomain(index, Mem), TRUE)
  /\ emitted' = <<>>
  /\ Click
  /\ NoReading
  /\ UNCHANGED <<variant, Async, Flash>>

\* the Delete All button of the unmatched list
RemoveAllUnmatched ==
  /\ Len(groupedDomains(knownServers, resolvedDomains)[Unmatched]) > 0
  /\ Commit(removeAllUnmatched(Mem), TRUE)
  /\ emitted' = <<>>
  /\ Click
  /\ NoReading
  /\ UNCHANGED <<variant, Async, Flash>>

\* resolveAllDomains walking its snapshot from the end
resolveAllStartBackwards(unresolved, resolving) ==
  IF Len(unresolved) = 0 \/ resolving
  THEN [started |-> FALSE, snapshot |-> <<>>]
  ELSE [started |-> TRUE,
        snapshot |-> [i \in 1..Len(unresolved) |->
                        unresolved[Len(unresolved) + 1 - i]]]

\* resolveAllDomains without the isResolving half of its guard
resolveAllStartUnguarded(unresolved, resolving) ==
  IF Len(unresolved) = 0
  THEN [started |-> FALSE, snapshot |-> <<>>]
  ELSE [started |-> TRUE, snapshot |-> unresolved]

\* resolveAllDomains() up to its first await: the guard, the flag, the
\* snapshot and the request for the first domain
resolveAllStart(unresolved, resolving) ==
  IF Len(unresolved) = 0 \/ resolving
  THEN [started |-> FALSE, snapshot |-> <<>>]
  ELSE [started |-> TRUE, snapshot |-> unresolved]

ResolveAllDomains ==
  LET out == resolveAllStart(unresolvedDomains, isResolving)
  IN /\ Click
     /\ isResolving' = (IF out.started THEN TRUE ELSE isResolving)
     /\ resolveAllRun' = (IF out.started THEN out.snapshot ELSE resolveAllRun)
     /\ emitted' = <<>>
     /\ NoReading
     /\ UNCHANGED <<variant, unresolvedDomains, knownServers, resolvedDomains,
                    localStorage, isRetryingAll, retryAllRun, manualRetries, Flash>>

\* resolveAllDomains() from the return of one resolveDomain (`ips`) to the next
\* await
\* or to its end
ResolveAllResponse(ips) ==
  /\ resolveAllRun # <<>>
  /\ \E times \in Readings(clock, 2 * Len(ips.ips)) :
       /\ LET out == resolveOne(Head(resolveAllRun), ips, times, Mem)
          IN Commit(out.mem, out.save)
       /\ clock' = LastReading(clock, times)
  /\ resolveAllRun' = Tail(resolveAllRun)
  /\ isResolving' = (IF Tail(resolveAllRun) = <<>> THEN FALSE ELSE isResolving)
  /\ emitted' = <<>>
  /\ UNCHANGED <<variant, isRetryingAll, retryAllRun, manualRetries, Flash>>
  /\ UNCHANGED clicks

\* the effects of retryResolveDomain on the mark, its timer and the refs
Retried(domain, out) ==
  /\ Commit(out.mem, out.save)
  /\ emitted' = out.emitted
  /\ IF out.marked
     THEN /\ Len(flashTimers) < MaxTimers
          /\ recentlyRetriedDomains' = recentlyRetriedDomains \cup {domain}
          /\ flashTimers' = Append(flashTimers, domain)
     ELSE UNCHANGED Flash

InFlight == LET RECURSIVE Sum(_)
                Sum(S) == IF S = {} THEN 0
                          ELSE LET d == CHOOSE x \in S : TRUE
                               IN manualRetries[d] + Sum(S \ {d})
            IN Sum(DomainNames)

\* the Retry button of a rendered record: retryResolveDomain up to its await
RetryClick(domain) ==
  /\ \E i \in Rendered(knownServers, resolvedDomains) : resolvedDomains[i].domain = domain
  /\ InFlight < MaxManual
  /\ Click
  /\ manualRetries' = [manualRetries EXCEPT ![domain] = @ + 1]
  /\ emitted' = <<>>
  /\ NoReading
  /\ UNCHANGED <<variant, unresolvedDomains, knownServers, resolvedDomains,
                 localStorage, isResolving, isRetryingAll, resolveAllRun,
                 retryAllRun, Flash>>

\* retryResolveDomain of a Retry button after its await
RetryResponse(domain, ips) ==
  /\ manualRetries[domain] > 0
  /\ \E times \in Readings(clock, 2 * Len(ips.ips)) :
       /\ Retried(domain, retryResolveDomain(domain, ips, times, Mem))
       /\ clock' = LastReading(clock, times)
  /\ manualRetries' = [manualRetries EXCEPT ![domain] = @ - 1]
  /\ UNCHANGED <<variant, isResolving, isRetryingAll, resolveAllRun, retryAllRun>>
  /\ UNCHANGED clicks

\* retryAllResolvedDomains() up to its first await
retryAllStart(resolved, retrying) ==
  IF Len(resolved) = 0 \/ retrying
  THEN [started |-> FALSE, queue |-> <<>>]
  ELSE [started |-> TRUE, queue |-> uniqueDomains(resolved)]

RetryAllResolvedDomains ==
  LET out == retryAllStart(resolvedDomains, isRetryingAll)
  IN /\ Click
     /\ isRetryingAll' = (IF out.started THEN TRUE ELSE isRetryingAll)
     /\ retryAllRun' = (IF out.started
                        THEN [pc |-> "await", queue |-> out.queue]
                        ELSE retryAllRun)
     /\ emitted' = <<>>
     /\ NoReading
     /\ UNCHANGED <<variant, unresolvedDomains, knownServers, resolvedDomains,
                    localStorage, isResolving, resolveAllRun, manualRetries, Flash>>

\* the loop of retryAllResolvedDomains without the reset of its flag
retryAllNextStuck(queue) ==
  IF Len(queue) > 1
  THEN [run |-> [pc |-> "pause", queue |-> queue], retrying |-> TRUE]
  ELSE [run |-> IdleRetryAll, retrying |-> TRUE]

\* what follows the retry of uniqueDomains[i]: the pause, or the end
retryAllNext(queue) ==
  IF Len(queue) > 1
  THEN [run |-> [pc |-> "pause", queue |-> queue], retrying |-> TRUE]
  ELSE [run |-> IdleRetryAll, retrying |-> FALSE]

\* retryAllResolvedDomains() from the return of one retryResolveDomain to the
\* 100 ms pause or to its end
RetryAllResponse(ips) ==
  /\ retryAllRun.pc = "await"
  /\ \E times \in Readings(clock, 2 * Len(ips.ips)) :
       /\ LET domain == Head(retryAllRun.queue)
          IN Retried(domain, retryResolveDomain(domain, ips, times, Mem))
       /\ clock' = LastReading(clock, times)
  /\ retryAllRun' = retryAllNext(retryAllRun.queue).run
  /\ isRetryingAll' = retryAllNext(retryAllRun.queue).retrying
  /\ UNCHANGED <<variant, isResolving, resolveAllRun, manualRetries>>
  /\ UNCHANGED clicks

\* the 100 ms pause ends: the next domain is retried
RetryAllPauseEnds ==
  /\ retryAllRun.pc = "pause"
  /\ retryAllRun' = [pc |-> "await", queue |-> Tail(retryAllRun.queue)]
  /\ emitted' = <<>>
  /\ NoReading
  /\ UNCHANGED <<variant, unresolvedDomains, knownServers, resolvedDomains,
                 localStorage, isResolving, isRetryingAll, resolveAllRun,
                 manualRetries, Flash>>
  /\ UNCHANGED clicks

\* a 3 s timer whose callback deletes nothing
FlashTimerIdle ==
  /\ flashTimers # <<>>
  /\ flashTimers' = Tail(flashTimers)
  /\ emitted' = <<>>
  /\ NoReading
  /\ UNCHANGED <<variant, unresolvedDomains, knownServers, resolvedDomains,
                 localStorage, Async, recentlyRetriedDomains>>
  /\ UNCHANGED clicks

\* the oldest 3 s timer fires: recentlyRetriedDomains.value.delete(domain)
FlashTimerFires ==
  /\ flashTimers # <<>>
  /\ recentlyRetriedDomains' = recentlyRetriedDomains \ {Head(flashTimers)}
  /\ flashTimers' = Tail(flashTimers)
  /\ emitted' = <<>>
  /\ NoReading
  /\ UNCHANGED <<variant, unresolvedDomains, knownServers, resolvedDomains,
                 localStorage, Async>>
  /\ UNCHANGED clicks

\* the page is loaded again: fresh refs, onMounted, and nothing of the old
\* page's requests and timers is left
Reload ==
  /\ Click
  /\ \E mem \in Loads(variant, localStorage) :
       /\ unresolvedDomains' = mem.unresolved
       /\ knownServers' = mem.known
       /\ resolvedDomains' = mem.resolved
  /\ isResolving' = FALSE
  /\ isRetryingAll' = FALSE
  /\ recentlyRetriedDomains' = {}
  /\ resolveAllRun' = <<>>
  /\ retryAllRun' = IdleRetryAll
  /\ manualRetries' = NoRetries
  /\ flashTimers' = <<>>
  /\ emitted' = <<>>
  /\ NoReading
  /\ UNCHANGED <<variant, localStorage>>

\* the resolve button disabled by its own flag alone
ResolveButtonOwnFlag ==
  ~(Len(unresolvedDomains) = 0 \/ isResolving)

\* :disabled of the two batch buttons
ResolveButtonEnabled ==
  ~(Len(unresolvedDomains) = 0 \/ isResolving \/ isRetryingAll)

RetryAllButtonEnabled ==
  ~(Len(resolvedDomains) = 0 \/ isResolving \/ isRetryingAll)

ResolveAllClick == ResolveButtonEnabled /\ ResolveAllDomains

RetryAllClick == RetryAllButtonEnabled /\ RetryAllResolvedDomains

\* what the user does besides the batch buttons, and what the resolver and
\* the timers do
Others ==
  \/ \E input \in DomainInputs : AddDomain(input)
  \/ \E nameInput \in NameInputs, ipInput \in IpInputs :
       AddKnownServer(nameInput, ipInput)
  \/ \E index \in 0..(MaxServers - 1) : RemoveServer(index)
  \/ \E domain \in DomainNames : RemoveDomain(domain)
  \/ \E index \in 0..(Len(resolvedDomains) - 1) : RemoveResolvedDomain(index)
  \/ RemoveAllUnmatched
  \/ \E domain \in DomainNames : RetryClick(domain)
  \/ Reload
  \/ \E ips \in Resolutions : ResolveAllResponse(ips)
  \/ \E domain \in DomainNames, ips \in Resolutions : RetryResponse(domain, ips)
  \/ \E ips \in Resolutions : RetryAllResponse(ips)
  \/ RetryAllPauseEnds
  \/ FlashTimerFires

\* the program behind its page: the batch operations start from their buttons
Next == ResolveAllClick \/ RetryAllClick \/ Others

Spec == Init /\ [][Next]_vars

\* the program with its two batch functions called whatever the buttons show
NextCalls == ResolveAllDomains \/ RetryAllResolvedDomains \/ Others

SpecCalls == Init /\ [][NextCalls]_vars

\* the return of a request, with null or with addresses
ResolveAllReturns ==
  \/ ResolveAllResponse(NullIps)
  \/ \E ips \in Resolutions : ResolveAllResponse(ips)

RetryAllReturns ==
  \/ RetryAllResponse(NullIps)
  \/ \E ips \in Resolutions : RetryAllResponse(ips)

RetryReturns ==
  \/ \E domain \in DomainNames : RetryResponse(domain, NullIps)
  \/ \E domain \in DomainNames, ips \in Resolutions : RetryResponse(domain, ips)

\* every request to the resolver returns (resolveDomain catches what fetch
\* throws and returns null), and every setTimeout fires
Fairness ==
  /\ WF_vars(ResolveAllReturns)
  /\ WF_vars(RetryAllReturns)
  /\ WF_vars(RetryReturns)
  /\ WF_vars(RetryAllPauseEnds)
  /\ WF_vars(FlashTimerFires)

SpecFair == Spec /\ Fairness

\* the stores a batch can start from: the unresolved domains sorted, known
\* servers in some orders (two of one ip among them), and for each domain no
\* record or the record of an earlier resolution, also for a domain that is
\* unresolved (a visit can save a domain in both lists)
BatchUnresolved == {sortUnresolved(SetToSeq(S)) : S \in SUBSET DomainNames}

BatchKnown ==
  { <<>>,
    << [name |-> <<"web1">>, ip |-> <<"1.2.3.4">>] >>,
    << [name |-> <<"web1">>, ip |-> <<"1.2.3.4">>],
       [name |-> <<"web2">>, ip |-> <<"1.2.3.4">>] >>,
    << [name |-> <<"web2">>, ip |-> <<"5.6.7.8">>],
       [name |-> <<"web1">>, ip |-> <<"1.2.3.4">>] >> }

BatchResolved(unresolved, known) ==
  {sortResolved(SetToSeq(
     {[domain |-> d, ip |-> <<"1.2.3.4">>,
       serverName |-> matchedServerName(known, <<"1.2.3.4">>),
       resolvedAt |-> toLocaleString(0), timestamp |-> 0] : d \in S})) :
     S \in SUBSET DomainNames}

BatchStores ==
  UNION {{Store(u, k, r) : r \in BatchResolved(u, k)} :
           <<u, k>> \in BatchUnresolved \X BatchKnown}

InitBatch ==
  /\ variant \in Variants
  /\ \E store \in BatchStores : localStorage = Save(variant, EmptyStorage, store)
  /\ \E mem \in Loads(variant, localStorage) : Mounted(mem)
  /\ clicks = 0

\* the page when the user does nothing but click Resolve All Domains
NextBatch ==
  \/ ResolveAllClick
  \/ \E ips \in Resolutions : ResolveAllResponse(ips)

SpecBatch == InitBatch /\ [][NextBatch]_vars

\* what the per-entity build can find in localStorage at its first visit: the
\* three keys of the other build alone, or its own keys of an earlier visit
\* beside the keys of the other build and a key of another page of the origin
ForeignKey == <<"theme">>

PreviousContents ==
  { saveWhole(EmptyStorage, EarlierStore),
    setItem(saveWhole(saveEntity(EmptyStorage, EarlierStore), EmptyStore),
            ForeignKey, <<"dark">>) }

InitSave ==
  /\ variant = "entity"
  /\ localStorage \in PreviousContents
  /\ \E mem \in Loads(variant, localStorage) : Mounted(mem)
  /\ clicks = 0

SpecSave == InitSave /\ [][Next]_vars

\* the page with two resolved domains right after Retry All Resolved and the
\* Retry button of its first domain were clicked: two requests for a.com are
\* out.  From there on the user only watches.
OverlapStores ==
  {Store(<<>>, known,
         << [domain |-> <<"a.com">>, ip |-> <<"1.2.3.4">>,
             serverName |-> matchedServerName(known, <<"1.2.3.4">>),
             resolvedAt |-> toLocaleString(0), timestamp |-> 0],
            [domain |-> <<"b.com">>, ip |-> <<"5.6.7.8">>,
             serverName |-> matchedServerName(known, <<"5.6.7.8">>),
             resolvedAt |-> toLocaleString(0), timestamp |-> 0] >>) : known \in BatchKnown}

InitOverlap ==
  /\ variant \in Variants
  /\ \E store \in OverlapStores :
       /\ localStorage = Save(variant, EmptyStorage, store)
       /\ unresolvedDomains = store.unresolved
       /\ knownServers = store.known
       /\ resolvedDomains = store.resolved
  /\ isResolving = FALSE
  /\ resolveAllRun = <<>>
  /\ isRetryingAll = retryAllStart(resolvedDomains, FALSE).started
  /\ retryAllRun = [pc |-> "await",
                    queue |-> retryAllStart(resolvedDomains, FALSE).queue]
  /\ manualRetries = [NoRetries EXCEPT ![<<"a.com">>] = 1]
  /\ recentlyRetriedDomains = {}
  /\ flashTimers = <<>>
  /\ emitted = <<>>
  /\ clock = 1
  /\ clicks = 2

NextOverlap ==
  \/ \E domain \in DomainNames, ips \in Resolutions : RetryResponse(domain, ips)
  \/ \E ips \in Resolutions : RetryAllResponse(ips)
  \/ RetryAllPauseEnds
  \/ FlashTimerFires

SpecOverlap == InitOverlap /\ [][NextOverlap]_vars

\* the page when the user does nothing but click Resolve All Domains, the
\* lookups told apart by what the network does
NextResolver ==
  \/ ResolveAllClick
  \/ \E resp \in Responses : ResolveAllResponse(resolveDomain(resp))

SpecResolver == InitBatch /\ [][NextResolver]_vars

\* the page of a user who has named a server "unmatched" and has a domain
\* to resolve
GroupStore ==
  Store(<< <<"a.com">> >>,
        << [name |-> Unmatched, ip |-> <<"1.2.3.4">>],
           [name |-> <<"web1">>, ip |-> <<"5.6.7.8">>] >>,
        <<>>)

InitGroups ==
  /\ variant \in Variants
  /\ localStorage = Save(variant, EmptyStorage, GroupStore)
  /\ \E mem \in Loads(variant, localStorage) : Mounted(mem)
  /\ clicks = 0

SpecGroups == InitGroups /\ [][Next]_vars

\* what a later visit of the page can find in localStorage: one domain to
\* resolve and no record, or b.com unresolved and resolved at once (saved by a
\* visit in which the record of b.com was removed and b.com added again while
\* a retry of b.com was out, and the retry then succeeded)
LaterStores ==
  { Store(<< <<"a.com">> >>,
          << [name |-> <<"web1">>, ip |-> <<"1.2.3.4">>] >>,
          <<>>),
    Store(<< <<"b.com">> >>,
          << [name |-> <<"web1">>, ip |-> <<"1.2.3.4">>] >>,
          << [domain |-> <<"b.com">>, ip |-> <<"1.2.3.4">>,
              serverName |-> <<"web1">>,
              resolvedAt |-> toLocaleString(0), timestamp |-> 0] >>) }

InitLater ==
  /\ variant \in Variants
  /\ \E store \in LaterStores : localStorage = Save(variant, EmptyStorage, store)
  /\ \E mem \in Loads(variant, localStorage) : Mounted(mem)
  /\ clicks = 0

SpecLater == InitLater /\ [][Next]_vars

\* ----------------------------------------------------------------- claims
\* C1: no domain is at the same time in the unresolved list and the domain of
\* a record of the resolved list
C1_NeverBoth ==
  \A d \in DomainNames :
    ~(Includes(unresolvedDomains, d) /\ HasDomain(resolvedDomains, d))

\* the records of `domain` in a resolved list, in list order
RecordsOf(resolved, domain) ==
  LET OfDomain(r) == r.domain = domain IN SelectSeq(resolved, OfDomain)

\* the records of the other domains, in list order
RecordsBeside(resolved, domain) ==
  LET Other(r) == r.domain # domain IN SelectSeq(resolved, Other)

\* a step in which the response `ips` of a resolution of `domain` is processed
\* by retryResolveDomain (a Retry button's or the one of Retry All Resolved)
RetryStep(domain, ips) ==
  \/ RetryResponse(domain, ips)
  \/ /\ retryAllRun.queue # <<>>
     /\ domain = Head(retryAllRun.queue)
     /\ RetryAllResponse(ips)

\* a step in which the response `ips` for `domain` is processed by
\* resolveAllDomains
ResolveAllStep(domain, ips) ==
  /\ resolveAllRun # <<>>
  /\ domain = Head(resolveAllRun)
  /\ ResolveAllResponse(ips)

\* C2: all records of the resolved list that share a domain were made by one
\* and the same resolution: a step that processes a successful resolution of
\* a domain, by retryResolveDomain or by resolveAllDomains, leaves the domain
\* with the records of that resolution, one for each returned ip, and with no
\* record of a resolution before (records are made by these steps alone)
C2_OneResolutionPerDomain ==
  [][\A domain \in DomainNames, ips \in Resolutions :
       (Succeeded(ips) /\ (RetryStep(domain, ips) \/ ResolveAllStep(domain, ips)))
         => Len(RecordsOf(resolvedDomains', domain)) = Len(ips.ips)
    ]_vars

\* the positions of the tokens that addDomain is to insert into `unresolved`:
\* the tokens that are neither unresolved nor resolved nor an earlier token
Inserted(tokens, unresolved, resolved) ==
  {k \in 1..Len(tokens) :
     /\ ~Includes(unresolved, tokens[k])
     /\ ~HasDomain(resolved, tokens[k])
     /\ \A j \in 1..(k - 1) : tokens[j] # tokens[k]}

ExampleInput == <<"a.com", ",", " ", "b.com", ",", " ", "a.com">>

\* C3: addDomain inserts each token of the input exactly once if it is neither
\* unresolved (also by an earlier token of the call) nor resolved, records a
\* warning for every other token, and emits one notification with all the
\* warnings if there is one and none otherwise; "a.com, b.com, a.com" on an
\* empty store gives a.com, b.com and one warning that mentions a.com
C3_AddDomains ==
  [][\A input \in DomainInputs :
       AddDomain(input) =>
         LET tokens == Tokens(input)
             ins == Inserted(tokens, unresolvedDomains, resolvedDomains)
         IN /\ Len(unresolvedDomains') = Len(unresolvedDomains) + Cardinality(ins)
            /\ Range(unresolvedDomains') =
                 Range(unresolvedDomains) \cup {tokens[k] : k \in ins}
            /\ IF Cardinality(ins) < Len(tokens)
               THEN /\ Len(emitted') = 1
                    /\ emitted'[1].kind = "duplicate"
                    /\ Len(emitted'[1].text) = Len(tokens) - Cardinality(ins)
                    /\ {emitted'[1].text[k].domain : k \in 1..Len(emitted'[1].text)}
                         = {tokens[k] : k \in (1..Len(tokens)) \ ins}
               ELSE emitted' = <<>>
            /\ (input = ExampleInput /\ Mem = EmptyStore)
                 => /\ unresolvedDomains' = << <<"a.com">>, <<"b.com">> >>
                    /\ Len(emitted') = 1
                    /\ emitted'[1].text =
                         << [domain |-> <<"a.com">>, reason |-> "unresolved"] >>
    ]_vars

C3_Witness ==
  /\ clicks = 1
  /\ resolvedDomains = <<>>
  /\ unresolvedDomains = << <<"a.com">>, <<"b.com">> >>
  /\ Len(emitted) = 1
  /\ emitted[1].kind = "duplicate"

\* the records that the step's resolution of `domain` has made: push puts
\* them behind the `kept` records that the domain keeps, and the sort by
\* domain is stable
MadeNow(domain, kept) ==
  LET now == RecordsOf(resolvedDomains', domain)
  IN SubSeq(now, kept + 1, Len(now))

\* the name of the first known server, in table order, with the ip, or null
FirstMatch(servers, ip) ==
  IF \A k \in 1..Len(servers) : servers[k].ip # ip THEN {Null}
  ELSE {servers[k].name : k \in {n \in 1..Len(servers) :
                                   /\ servers[n].ip = ip
                                   /\ \A j \in 1..(n - 1) : servers[j].ip # ip}}

\* C4: every record made by a successful resolution carries the name of the
\* first known server, in the order of the table as it is when the response is
\* processed, whose ip is the record's ip, and null if there is none
C4_FirstMatchWins ==
  [][\A domain \in DomainNames, ips \in Resolutions :
       (Succeeded(ips) /\ (RetryStep(domain, ips) \/ ResolveAllStep(domain, ips)))
         => LET kept == IF RetryStep(domain, ips) THEN 0
                        ELSE Len(RecordsOf(resolvedDomains, domain))
                made == MadeNow(domain, kept)
            IN /\ Len(made) = Len(ips.ips)
               /\ \A k \in 1..Len(made) :
                    /\ made[k].ip = ips.ips[k]
                    /\ made[k].serverName \in FirstMatch(knownServers, made[k].ip)
    ]_vars

\* a record made while two known servers had its ip carries the first name
C4_Witness ==
  /\ Len(knownServers) = 2
  /\ knownServers[1].ip = knownServers[2].ip
  /\ knownServers[1].name # knownServers[2].name
  /\ \E i \in 1..Len(resolvedDomains) :
       /\ resolvedDomains[i].ip = knownServers[1].ip
       /\ resolvedDomains[i].serverName = knownServers[1].name
       /\ resolvedDomains[i].timestamp > 0

\* C5: when retryResolveDomain succeeds for a domain with the list L, the
\* records of the domain are then one record per element of L in the order of
\* L, none of the records it had before remains (each record carries a
\* reading of the clock of this step), and the records of the other domains
\* are as before
C5_RetryReplaces ==
  [][\A domain \in DomainNames, ips \in Resolutions :
       (Succeeded(ips) /\ RetryStep(domain, ips))
         => LET now == RecordsOf(resolvedDomains', domain)
            IN /\ Len(now) = Len(ips.ips)
               /\ \A k \in 1..Len(now) : now[k].ip = ips.ips[k]
               /\ now = MadeNow(domain, 0)
               /\ \A k \in 1..Len(now) :
                    clock <= now[k].timestamp /\ now[k].timestamp <= clock'
               /\ RecordsBeside(resolvedDomains', domain)
                    = RecordsBeside(resolvedDomains, domain)
    ]_vars

\* a domain with two records of one resolution that replaced an earlier one,
\* beside a record of another domain
C5_Witness ==
  /\ Len(RecordsOf(resolvedDomains, <<"b.com">>)) = 2
  /\ \A i \in 1..Len(resolvedDomains) :
       resolvedDomains[i].domain = <<"b.com">> => resolvedDomains[i].timestamp > 0
  /\ HasDomain(resolvedDomains, <<"a.com">>)
  /\ <<"b.com">> \in recentlyRetriedDomains

\* C6: a successful retryResolveDomain emits exactly one "IP changed"
\* notification when the set of the ips of the domain's records differs from
\* the set of the ips returned, and none when the two sets are equal
C6_ChangeNotified ==
  [][\A domain \in DomainNames, ips \in Resolutions :
       (Succeeded(ips) /\ RetryStep(domain, ips))
         => LET old == RecordsOf(resolvedDomains, domain)
                oldSet == {old[k].ip : k \in 1..Len(old)}
                newSet == Range(ips.ips)
            IN IF oldSet # newSet
               THEN /\ Len(emitted') = 1
                    /\ emitted'[1].kind = "ipchanged"
                    /\ emitted'[1].text = <<domain>>
               ELSE emitted' = <<>>
    ]_vars

\* the second of two successful retries of b.com (both timers are pending)
\* returned the two addresses of the domain and emitted nothing
C6_Witness ==
  /\ emitted = <<>>
  /\ flashTimers = << <<"b.com">>, <<"b.com">> >>
  /\ LET recs == RecordsOf(resolvedDomains, <<"b.com">>)
     IN /\ Len(recs) = 2
        /\ recs[1].ip = <<"5.6.7.8">>
        /\ recs[2].ip = <<"1.2.3.4">>
        /\ clicks = 2

\* C7: removeAllUnmatched removes exactly the records whose serverName is null,
\* keeps the others in their order (also those of a server that is no longer
\* known) and leaves the unresolved list and the known servers as they are
C7_RemoveAllUnmatched ==
  [][RemoveAllUnmatched =>
       LET Named(r) == r.serverName # Null
       IN /\ resolvedDomains' = SelectSeq(resolvedDomains, Named)
          /\ unresolvedDomains' = unresolvedDomains
          /\ knownServers' = knownServers
    ]_vars

KnownNames == {knownServers[k].name : k \in 1..Len(knownServers)}

\* removeAllUnmatched acts on a list with an unmatched record and a record of
\* a server that is no longer known, and the latter stays
C7_Witness ==
  /\ \E i \in 1..Len(resolvedDomains) : resolvedDomains[i].serverName = Null
  /\ ENABLED (/\ RemoveAllUnmatched
              /\ \E i \in 1..Len(resolvedDomains') :
                   resolvedDomains'[i].serverName \notin KnownNames)

\* two stores with the same unresolved domains and the same records in the
\* same order, and the same known-server entries, each as often
SameStore(m1, m2) ==
  /\ m1.unresolved = m2.unresolved
  /\ m1.resolved = m2.resolved
  /\ \A e \in Range(m1.known) \cup Range(m2.known) :
       Cardinality({k \in 1..Len(m1.known) : m1.known[k] = e})
         = Cardinality({k \in 1..Len(m2.known) : m2.known[k] = e})

\* C8: for every store the operations reach, saveToStorage followed at once by
\* loadFromStorage gives the same store again, also with two known servers of
\* one name
C8_SaveLoadRoundTrip ==
  \A loaded \in Loads(variant, Save(variant, localStorage, Mem)) :
    SameStore(loaded, Mem)

\* what saveToStorage has written is what localStorage holds, or nothing was
\* ever written and there is nothing to write
Flushed ==
  \/ localStorage = Save(variant, localStorage, Mem)
  \/ localStorage = EmptyStorage /\ Mem = EmptyStore

\* C9: between the handlers, localStorage mirrors the store in memory: every
\* change of the three lists is flushed before the handler returns
C9_Mirror == Flushed

\* resolveAllDomains has moved a.com to the resolved list and awaits b.com
C9_Witness ==
  /\ isResolving
  /\ resolveAllRun = << <<"b.com">> >>
  /\ unresolvedDomains = << <<"b.com">> >>
  /\ HasDomain(resolvedDomains, <<"a.com">>)
  /\ localStorage # EmptyStorage

\* C10: a call of resolveAllDomains while isResolving is set returns at once:
\* no snapshot, no request, no list changed, the flag left set, nothing shown
C10_SecondCallNoOp ==
  [][(isResolving /\ ResolveAllDomains) =>
       /\ UNCHANGED <<variant, unresolvedDomains, knownServers, resolvedDomains,
                      isResolving, isRetryingAll, recentlyRetriedDomains,
                      localStorage, resolveAllRun, retryAllRun, manualRetries,
                      flashTimers, clock>>
       /\ emitted' = <<>>
    ]_vars

\* resolveAllDomains can be called while an earlier call awaits a response and
\* the unresolved list is no longer the snapshot of that call
C10_Witness ==
  /\ isResolving
  /\ Len(unresolvedDomains) > 0
  /\ resolveAllRun # unresolvedDomains
  /\ ENABLED ResolveAllDomains

\* C11: behind the buttons of the page isResolving and isRetryingAll are never
\* both set, no resolveAllDomains run and retryAllResolvedDomains run are in
\* flight together, and retryAllResolvedDomains called while isRetryingAll is
\* set does not start
C11_BatchesExclusive ==
  /\ ~(isResolving /\ isRetryingAll)
  /\ ~(resolveAllRun # <<>> /\ retryAllRun.pc # "idle")
  /\ isRetryingAll => ~retryAllStart(resolvedDomains, isRetryingAll).started

\* a retry-all run is in flight while there is a domain to resolve: only the
\* isRetryingAll half of :disabled keeps the resolve button off
C11_Witness ==
  /\ isRetryingAll
  /\ retryAllRun.pc = "await"
  /\ Len(unresolvedDomains) > 0
  /\ Len(resolvedDomains) > 0
  /\ ~ResolveButtonEnabled
  /\ clicks < MaxClicks

\* the requests to the resolver that have not returned yet
Outstanding ==
  (IF resolveAllRun # <<>> THEN 1 ELSE 0)
    + (IF retryAllRun.pc = "await" THEN 1 ELSE 0)
    + InFlight

\* C13: at most one request to the resolver is outstanding at any time, also
\* when a Retry button is clicked while a batch awaits its response
C13_OneOutstanding == Outstanding <= 1

\* C15: no two entries of knownServers have the same name
C15_UniqueNames ==
  \A i, j \in 1..Len(knownServers) :
    knownServers[i].name = knownServers[j].name => i = j

\* C12: when every request returns, a batch that has set its flag clears it in
\* the end: isResolving after the last domain of the snapshot, isRetryingAll
\* after the last distinct domain, whatever the results and the clicks between
C12_FlagsCleared ==
  /\ isResolving ~> ~isResolving
  /\ isRetryingAll ~> ~isRetryingAll

\* resolveAllDomains goes on after a failed resolution: the first domain of
\* its snapshot is still unresolved and the request for the second is out
C12_Witness ==
  /\ isResolving
  /\ Len(unresolvedDomains) = 2
  /\ resolveAllRun = <<unresolvedDomains[2]>>

\* C14: when resolveDomain returns null to retryResolveDomain, the three
\* lists, recentlyRetriedDomains and localStorage stay as they are and the
\* user is told nothing
C14_FailureSilent ==
  [][\A domain \in DomainNames, ips \in Resolutions :
       (~Succeeded(ips) /\ RetryStep(domain, ips)) =>
         /\ UNCHANGED <<unresolvedDomains, knownServers, resolvedDomains,
                        recentlyRetriedDomains, flashTimers, localStorage>>
         /\ emitted' = <<>>
    ]_vars

\* retryAllResolvedDomains awaits the first of its two domains, and the step
\* that processes a failed resolution takes it to its pause with the records
\* as they are
C14_Witness ==
  /\ retryAllRun.pc = "await"
  /\ Len(retryAllRun.queue) = 2
  /\ ENABLED (/\ RetryAllResponse(NullIps)
              /\ retryAllRun'.pc = "pause"
              /\ resolvedDomains' = resolvedDomains)

\* C16: a domain that enters the unresolved list has no record in the resolved
\* list, before the step and after it: no step takes a domain with records
\* back to the unresolved list
C16_NoResolvedToUnresolved ==
  [][\A d \in DomainNames :
       (~Includes(unresolvedDomains, d) /\ Includes(unresolvedDomains', d)) =>
         /\ ~HasDomain(resolvedDomains, d)
         /\ ~HasDomain(resolvedDomains', d)
    ]_vars

\* addDomain has turned down b.com because it has records
C16_Witness ==
  /\ emitted = <<Notice("duplicate",
                        <<[domain |-> <<"b.com">>, reason |-> "resolved"]>>)>>
  /\ HasDomain(resolvedDomains, <<"b.com">>)
  /\ ~Includes(unresolvedDomains, <<"b.com">>)

\* C17: a domain gains records only in a step before which it is in the
\* unresolved list or has records already: a domain the user has removed
\* stays without records until it is added again
C17_NoAbsentToResolved ==
  [][\A d \in DomainNames :
       (~HasDomain(resolvedDomains, d) /\ HasDomain(resolvedDomains', d)) =>
         Includes(unresolvedDomains, d)
    ]_vars

\* the step processes a successful resolution of `domain`
ResolvedNow(domain) ==
  \E ips \in Resolutions :
    Succeeded(ips) /\ (RetryStep(domain, ips) \/ ResolveAllStep(domain, ips))

\* C18: addKnownServer and removeServer leave resolvedDomains as it is, and in
\* no step does a record change its serverName: a domain's records get their
\* names when they are made by a resolution of the domain, so after a step
\* that is no successful resolution of the domain each of its records is a
\* record the list held before, name and all
C18_NoRematch ==
  [][/\ ( \/ \E nameInput \in NameInputs, ipInput \in IpInputs :
               AddKnownServer(nameInput, ipInput)
          \/ \E index \in 0..(MaxServers - 1) : RemoveServer(index) )
          => resolvedDomains' = resolvedDomains
     /\ \A j \in 1..Len(resolvedDomains') :
          \/ Includes(resolvedDomains, resolvedDomains'[j])
          \/ ResolvedNow(resolvedDomains'[j].domain)
    ]_vars

\* an unmatched record whose ip is the ip of a known server (added after the
\* resolution), and a record named after a server that is no longer known
C18_Witness ==
  /\ \E i \in 1..Len(resolvedDomains), k \in 1..Len(knownServers) :
       /\ resolvedDomains[i].serverName = Null
       /\ resolvedDomains[i].ip = knownServers[k].ip
  /\ \E j \in 1..Len(resolvedDomains) :
       /\ resolvedDomains[j].serverName # Null
       /\ resolvedDomains[j].serverName \notin KnownNames

\* how often `ip` occurs in a sequence of ips
Times(ips, ip) == Cardinality({k \in 1..Len(ips) : ips[k] = ip})

\* C19: when nothing interleaves with resolveAllDomains, each response of the
\* run settles its domain for the rest of the run: after a success the domain
\* is not unresolved and has one record for each returned ip, named by the
\* matcher; after a failure it is still unresolved and has no record; the
\* other domains stay as they are, so this is what the run ends with
C19_BatchOutcome ==
  [][\A d \in DomainNames, ips \in Resolutions :
       ResolveAllStep(d, ips) =>
         LET made == RecordsOf(resolvedDomains', d)
             madeIps == [k \in 1..Len(made) |-> made[k].ip]
         IN /\ Succeeded(ips) =>
                 /\ ~Includes(unresolvedDomains', d)
                 /\ Len(made) = Len(ips.ips)
                 /\ \A ip \in Range(ips.ips) \cup Range(madeIps) :
                      Times(madeIps, ip) = Times(ips.ips, ip)
                 /\ \A k \in 1..Len(made) :
                      made[k].serverName \in FirstMatch(knownServers, made[k].ip)
            /\ ~Succeeded(ips) =>
                 /\ Includes(unresolvedDomains', d)
                 /\ made = <<>>
            /\ \A e \in DomainNames \ {d} :
                 /\ Includes(unresolvedDomains', e) = Includes(unresolvedDomains, e)
                 /\ RecordsOf(resolvedDomains', e) = RecordsOf(resolvedDomains, e)
    ]_vars

\* C20: a run of resolveAllDomains starts with the request for the first
\* domain of the unresolved list as it is at the click, and goes on through that
\* list in its order; the run moves to its next domain only when the request
\* that is out returns, so each domain of the snapshot gets one request; no
\* other step of the page changes the run: a domain added later is not in it
\* and a domain removed later stays in it (leaving the page ends everything)
C20_SnapshotInOrder ==
  [][/\ (resolveAllRun = <<>> /\ resolveAllRun' # <<>>)
          => resolveAllRun' = unresolvedDomains
     /\ (resolveAllRun # <<>> /\ ~Reload) =>
          \/ resolveAllRun' = resolveAllRun
          \/ /\ resolveAllRun' = Tail(resolveAllRun)
             /\ \E ips \in Resolutions : ResolveAllStep(Head(resolveAllRun), ips)
    ]_vars

\* the request for a.com is out though a.com has been removed, and b.com,
\* added after the click, is not part of the run
C20_Witness ==
  /\ isResolving
  /\ resolveAllRun = << <<"a.com">> >>
  /\ unresolvedDomains = << <<"b.com">> >>

\* the position of the first record of `domain` in `resolved`
FirstRecord(resolved, domain) ==
  CHOOSE i \in 1..Len(resolved) :
    /\ resolved[i].domain = domain
    /\ \A j \in 1..(i - 1) : resolved[j].domain # domain

\* C21: a run of retryAllResolvedDomains starts with the retry of the first
\* of the distinct domains of the resolved list as it is at the click, each
\* domain once and in the order of its first record; when a retry returns the
\* run pauses if a domain is left and ends (flag reset) if none is; when the
\* pause ends the next domain is retried; no other step of the page changes
\* the run (leaving the page ends everything)
C21_RetryAllInOrder ==
  [][/\ (retryAllRun.pc = "idle" /\ retryAllRun'.pc # "idle") =>
          LET queue == retryAllRun'.queue
          IN /\ retryAllRun'.pc = "await"
             /\ Range(queue) = {resolvedDomains[i].domain :
                                  i \in 1..Len(resolvedDomains)}
             /\ \A i, j \in 1..Len(queue) :
                  i < j => FirstRecord(resolvedDomains, queue[i])
                             < FirstRecord(resolvedDomains, queue[j])
     /\ (retryAllRun.pc = "await" /\ ~Reload) =>
          \/ retryAllRun' = retryAllRun
          \/ /\ \E ips \in Resolutions :
                  RetryStep(Head(retryAllRun.queue), ips)
             /\ IF Len(retryAllRun.queue) > 1
                THEN retryAllRun' = [retryAllRun EXCEPT !.pc = "pause"]
                ELSE retryAllRun'.pc = "idle" /\ ~isRetryingAll'
     /\ (retryAllRun.pc = "pause" /\ ~Reload) =>
          \/ retryAllRun' = retryAllRun
          \/ /\ retryAllRun' = [pc |-> "await", queue |-> Tail(retryAllRun.queue)]
             /\ UNCHANGED <<unresolvedDomains, knownServers, resolvedDomains>>
    ]_vars

\* the run pauses behind the first of two domains, and the resolved list has
\* more records than domains
C21_Witness ==
  /\ isRetryingAll
  /\ retryAllRun.pc = "pause"
  /\ Len(retryAllRun.queue) = 2
  /\ Len(resolvedDomains) > 2

\* keys in ascending order of localeCompare
Ascending(keys) ==
  \A i, j \in 1..Len(keys) : i < j => localeCompare(keys[i], keys[j]) <= 0

\* C22: between the handlers, between the items of a batch and after
\* loadFromStorage, unresolvedDomains is in ascending order and
\* resolvedDomains is in ascending order of domain
C22_Sorted ==
  /\ Ascending(unresolvedDomains)
  /\ Ascending([i \in 1..Len(resolvedDomains) |-> resolvedDomains[i].domain])

\* resolveAllDomains has pushed the records of a.com behind the record of
\* b.com and sorted: a.com comes first
C22_Witness ==
  /\ clicks = 1
  /\ unresolvedDomains = <<>>
  /\ Len(resolvedDomains) >= 2
  /\ resolvedDomains[1].domain = <<"a.com">>
  /\ resolvedDomains[Len(resolvedDomains)].domain = <<"b.com">>

\* C23: unresolvedDomains holds no domain twice and no empty string
C23_UnresolvedUniqueNonEmpty ==
  /\ \A i, j \in 1..Len(unresolvedDomains) :
       unresolvedDomains[i] = unresolvedDomains[j] => i = j
  /\ \A i \in 1..Len(unresolvedDomains) : unresolvedDomains[i] # <<>>

\* addDomain has turned down a.com, which loadFromStorage had put into the
\* unresolved list
C23_Witness ==
  /\ clicks = 1
  /\ unresolvedDomains = << <<"a.com">> >>
  /\ emitted = <<Notice("duplicate",
                        <<[domain |-> <<"a.com">>, reason |-> "unresolved"]>>)>>

\* C24: the step that processes a successful result of retryResolveDomain for
\* a domain puts the domain into recentlyRetriedDomains, the step that
\* processes a failed one leaves recentlyRetriedDomains as it is, and when the
\* timers fire every domain in recentlyRetriedDomains leaves it in the end
C24_MarkSetAndCleared ==
  /\ [][\A d \in DomainNames, ips \in Resolutions :
          RetryStep(d, ips) =>
            IF Succeeded(ips)
            THEN d \in recentlyRetriedDomains'
            ELSE recentlyRetriedDomains' = recentlyRetriedDomains
       ]_vars
  /\ \A d \in DomainNames :
       (d \in recentlyRetriedDomains) ~> (d \notin recentlyRetriedDomains)

\* after one click a record carries an instant of this visit: a retry has
\* succeeded, and its mark has been set and cleared
C24_Witness ==
  /\ clicks = 1
  /\ recentlyRetriedDomains = {}
  /\ flashTimers = <<>>
  /\ \E i \in 1..Len(resolvedDomains) : resolvedDomains[i].timestamp > 0

\* C25: while the 3 s window of a successful retry of a domain has not
\* expired (its timer is pending), the domain is in recentlyRetriedDomains:
\* the timer of an earlier retry of the domain does not clear the mark
C25_MarkHeldByLaterRetry ==
  \A k \in 1..Len(flashTimers) : flashTimers[k] \in recentlyRetriedDomains

\* the keys of `st` that start with domain: or server:
EntityKeys(st) ==
  {k \in DOMAIN st : StartsWith(k, DomainPrefix) \/ StartsWith(k, ServerPrefix)}

\* C26: whatever localStorage held before, after saveToStorage of the
\* per-entity build the keys with the prefix domain: or server: are one
\* domain:unresolved:<d> for each unresolved domain, one domain:resolved:<d>
\* for each domain with records, holding its records in list order, and one
\* server:<name> for each name of a known server; none of the three keys
\* unresolvedDomains, knownServers, resolvedDomains is left
C26_EntityKeysExact ==
  [][localStorage' # localStorage =>
       /\ EntityKeys(localStorage') =
            {UnresolvedPrefix \o d : d \in Range(unresolvedDomains')}
              \cup {ResolvedPrefix \o resolvedDomains'[i].domain :
                      i \in 1..Len(resolvedDomains')}
              \cup {ServerPrefix \o knownServers'[k].name :
                      k \in 1..Len(knownServers')}
       /\ \A i \in 1..Len(resolvedDomains') :
            LET d == resolvedDomains'[i].domain
                records == RecordsOf(resolvedDomains', d)
                stored == parse(localStorage'[ResolvedPrefix \o d])
            IN /\ Len(stored) = Len(records)
               /\ \A n \in 1..Len(records) :
                    /\ stored[n].ip = records[n].ip
                    /\ stored[n].serverName = records[n].serverName
                    /\ stored[n].resolvedAt = records[n].resolvedAt
                    /\ stored[n].timestamp = records[n].timestamp
       /\ DOMAIN localStorage' \cap {UnresolvedKey, ServersKey, ResolvedKey} = {}
    ]_vars

\* saveToStorage has run on a store that held the keys of the other build,
\* the key of a.com (removed since) and the key of another page: only the
\* last is left of them
C26_Witness ==
  /\ ForeignKey \in DOMAIN localStorage
  /\ UnresolvedKey \notin DOMAIN localStorage
  /\ (UnresolvedPrefix \o <<"a.com">>) \notin DOMAIN localStorage
  /\ ~HasDomain(resolvedDomains, <<"a.com">>)

\* the retries of `domain` whose requests are out
OutstandingFor(domain) ==
  manualRetries[domain]
    + (IF retryAllRun.pc = "await" /\ Head(retryAllRun.queue) = domain
       THEN 1 ELSE 0)

\* C27: two retries of a.com are out together.  When the first response has
\* been processed with success (a record of a.com carries an instant of this
\* visit) and the other response is processed with success too, the records
\* of a.com are one record per ip of that last response, in its order, each
\* with a reading of the clock of this step: none of the first response is left
C27_LastResponseWins ==
  [][\A ips \in Resolutions :
       LET d == <<"a.com">>
           old == RecordsOf(resolvedDomains, d)
           new == RecordsOf(resolvedDomains', d)
       IN ( /\ OutstandingFor(d) = 1
            /\ \E k \in 1..Len(old) : old[k].timestamp > 0
            /\ Succeeded(ips)
            /\ RetryStep(d, ips) )
          => /\ [k \in 1..Len(new) |-> new[k].ip] = ips.ips
             /\ \A k \in 1..Len(new) :
                  /\ clock <= new[k].timestamp /\ new[k].timestamp <= clock'
                  /\ new[k].serverName \in FirstMatch(knownServers, new[k].ip)
    ]_vars

\* both responses for a.com have been processed with success (two timers of
\* a.com are pending) and a.com has the two records of the last response
C27_Witness ==
  /\ flashTimers = << <<"a.com">>, <<"a.com">> >>
  /\ OutstandingFor(<<"a.com">>) = 0
  /\ Len(RecordsOf(resolvedDomains, <<"a.com">>)) = 2

\* a text without white space at its ends
NoBlankEnds(text) == text = <<>> \/ (Head(text) # " " /\ text[Len(text)] # " ")

\* C28: addKnownServer with a name or an ip that is empty after trimming
\* changes neither the lists nor localStorage; otherwise it appends one
\* entry with the trimmed name and ip to the end of knownServers, also when
\* the name is in the table already, and leaves the two domain lists alone
C28_AddKnownServer ==
  [][\A nameInput \in NameInputs, ipInput \in IpInputs :
       AddKnownServer(nameInput, ipInput) =>
         IF Trim(nameInput) = <<>> \/ Trim(ipInput) = <<>>
         THEN UNCHANGED <<unresolvedDomains, knownServers, resolvedDomains,
                          localStorage>>
         ELSE /\ Len(knownServers') = Len(knownServers) + 1
              /\ SubSeq(knownServers', 1, Len(knownServers)) = knownServers
              /\ knownServers'[Len(knownServers')] =
                   [name |-> Trim(nameInput), ip |-> Trim(ipInput)]
              /\ NoBlankEnds(knownServers'[Len(knownServers')].name)
              /\ NoBlankEnds(knownServers'[Len(knownServers')].ip)
              /\ UNCHANGED <<unresolvedDomains, resolvedDomains>>
    ]_vars

\* a second server named web1 has been appended, its ip typed with a blank
C28_Witness ==
  /\ Len(knownServers) = 2
  /\ knownServers[1].name = <<"web1">>
  /\ knownServers[2] = [name |-> <<"web1">>, ip |-> <<"5.6.7.8">>]

\* C29: removeDomain(d) takes d out of unresolvedDomains, the other domains
\* keeping their order, and leaves resolvedDomains and knownServers alone;
\* for a d that is not in unresolvedDomains it leaves the three lists as
\* they are
C29_RemoveDomain ==
  [][/\ \A d \in DomainNames :
          RemoveDomain(d) =>
            LET Other(x) == x # d
            IN /\ unresolvedDomains' = SelectSeq(unresolvedDomains, Other)
               /\ UNCHANGED <<resolvedDomains, knownServers>>
     /\ \A d \in DomainNames :
          ~Includes(unresolvedDomains, d) => removeDomain(d, Mem) = Mem
    ]_vars

\* the Remove button of b.com, the second of two unresolved domains, can be
\* clicked beside a known server, and a.com stays
C29_Witness ==
  /\ unresolvedDomains = << <<"a.com">>, <<"b.com">> >>
  /\ Len(knownServers) > 0
  /\ ENABLED (RemoveDomain(<<"b.com">>)
                /\ unresolvedDomains' = << <<"a.com">> >>)

\* C30: removeResolvedDomain(i) for the position i of a rendered record takes
\* exactly that record out of resolvedDomains: the list is one shorter, the
\* records before i and behind i are kept in order (those of the same domain
\* too), and unresolvedDomains and knownServers are as before
C30_RemoveResolvedRecord ==
  [][\A index \in 0..(Len(resolvedDomains) - 1) :
       RemoveResolvedDomain(index) =>
         /\ Len(resolvedDomains') = Len(resolvedDomains) - 1
         /\ \A k \in 1..index : resolvedDomains'[k] = resolvedDomains[k]
         /\ \A k \in (index + 1)..Len(resolvedDomains') :
              resolvedDomains'[k] = resolvedDomains[k + 1]
         /\ UNCHANGED <<unresolvedDomains, knownServers>>
    ]_vars

\* the Remove button of the first of two records of one domain can be
\* clicked, and the other record of the domain stays
C30_Witness ==
  /\ Len(resolvedDomains) >= 2
  /\ resolvedDomains[1].domain = resolvedDomains[2].domain
  /\ ENABLED (RemoveResolvedDomain(0)
                /\ HasDomain(resolvedDomains', resolvedDomains[1].domain))

\* the positions of the entries of type 1 in an Answer, and the k-th of them
TypeOne(answer) == {i \in 1..Len(answer) : answer[i].type = 1}

NthTypeOne(answer, k) ==
  CHOOSE i \in TypeOne(answer) :
    Cardinality({j \in TypeOne(answer) : j <= i}) = k

\* C31: whatever the lookup does, resolveDomain returns: null for a network
\* error, a non-success status, a body that cannot be read, a missing or empty
\* Answer and an Answer without an entry of type 1; otherwise the non-empty
\* list of the data of the entries of type 1 in the order of the Answer.
\* resolveAllDomains goes on with that value: nothing changes for null, and
\* the step pushes one record for each element of the list, in its order
C31_ResolverTotal ==
  [][\A d \in DomainNames, resp \in Responses :
       ResolveAllStep(d, resolveDomain(resp)) =>
         LET ips == resolveDomain(resp)
             made == MadeNow(d, Len(RecordsOf(resolvedDomains, d)))
         IN IF resp.kind # "ok" \/ TypeOne(resp.answer) = {}
            THEN /\ ips = NullIps
                 /\ UNCHANGED <<unresolvedDomains, knownServers,
                                resolvedDomains, localStorage>>
            ELSE /\ ~ips.isNull
                 /\ Len(ips.ips) = Cardinality(TypeOne(resp.answer))
                 /\ Len(ips.ips) > 0
                 /\ \A k \in 1..Len(ips.ips) :
                      ips.ips[k] = resp.answer[NthTypeOne(resp.answer, k)].data
                 /\ [k \in 1..Len(made) |-> made[k].ip] = ips.ips
    ]_vars

\* a.com has been resolved from an Answer with the address 5.6.7.8 before
\* the address 1.2.3.4
C31_Witness ==
  /\ ~Includes(unresolvedDomains, <<"a.com">>)
  /\ LET made == RecordsOf(resolvedDomains, <<"a.com">>)
     IN [k \in 1..Len(made) |-> made[k].ip] = << <<"5.6.7.8">>, <<"1.2.3.4">> >>

\* C32: groupedDomains partitions resolvedDomains: every record is in exactly
\* one group, the group "unmatched" holds exactly the records whose
\* serverName is null, and the group of a server name holds exactly the
\* records with that serverName, also for the name of a server that was
\* removed and for a server that is named "unmatched"
C32_GroupsPartition ==
  LET groups == groupedDomains(knownServers, resolvedDomains)
      Unnamed(r) == r.serverName = Null
      names == KnownNames \cup
                 ({resolvedDomains[i].serverName : i \in 1..Len(resolvedDomains)}
                    \ {Null})
  IN /\ \A i \in 1..Len(resolvedDomains) :
          Cardinality({g \in DOMAIN groups :
                         Includes(groups[g], resolvedDomains[i])}) = 1
     /\ groups[Unmatched] = SelectSeq(resolvedDomains, Unnamed)
     /\ \A name \in names :
          LET Named(r) == r.serverName = name
          IN groups[name] = SelectSeq(resolvedDomains, Named)
====
